---------------------------- MODULE Spec2Model ----------------------------
(* The attendance gateway (attendance-api): the SSE subscriber registry of  *)
(* AttendanceService (Subscribe / Unsubscribe / broadcast / Close / the     *)
(* periodic sweep / GetSSEStats), the stream handler that consumes a        *)
(* subscription, and RecordAttendance, which decides on a recognition       *)
(* result, saves a record and broadcasts it.                                *)
(*                                                                          *)
(* Every goroutine is a process with a program counter.  A step is either   *)
(* the acquisition of s.mu, or the body that runs while it is held together *)
(* with the deferred release (the body is atomic for every goroutine that   *)
(* takes the lock), or one channel operation.  broadcast holds only the     *)
(* read lock, so each of its sends is a step of its own: stream handlers    *)
(* receive, and other readers run, between two sends.                       *)
EXTENDS Integers, Sequences, FiniteSets, TLC

\* ------------------------------------------------------------ bounds
ChanCap == 10           \* make(chan domain.SSEMessage, 10)
MaxBroadcasts == 2      \* broadcast calls of the broker driver
Buffered == 1           \* messages buffered for a handler when the gateway starts
MaxCalls == 1           \* RecordAttendance calls of the gateway
MaxExtUnsub == 1        \* Unsubscribe calls made from outside the handlers
MaxFaces == 2           \* faces in one recognition result

\* a stalled handler's buffer at the start: one message short of full
PreFill == ChanCap - 1

\* ------------------------------------------------------------ processes
Handlers == {"h1", "h2"}        \* AttendanceStream requests
Recorders == {"r1"}             \* RecordAttendance requests
Broadcasters == {"b1"}          \* direct callers of broadcast
Unsubscribers == {"u1"}         \* direct callers of Unsubscribe
Sweeper == "sweep"              \* go service.cleanupStaleConnections()
Closer == "close"               \* the caller of Close
StatsCaller == "stats"          \* the caller of GetSSEStats
Main == "main"                  \* func main
Firmware == "esp32"             \* the ESP32-CAM sketch: setup() and loop()
DBStatsCaller == "dbstats"      \* the caller of GetAttendanceStats
Procs == Handlers \cup Recorders \cup Broadcasters \cup Unsubscribers
            \cup {Sweeper, Closer, StatsCaller, Main, Firmware, DBStatsCaller}
None == "none"

\* uuid.New().String()[:8]: one fresh ID per Subscribe call; a handler
\* subscribes once, so its own name stands for the ID it draws.
NewClientID(h) == h
ClientIDs == {NewClientID(h) : h \in Handlers}

VARIABLES
    clients,      \* s.clients: client ID -> SSEClient
    chans,        \* the channels made so far: channel -> [buf, closed]
    rw,           \* s.mu: [writer, readers]
    pc,           \* where each goroutine is
    arg,          \* Unsubscribe's clientID, per caller
    message,      \* broadcast's message, per caller
    todo,         \* broadcast's range over s.clients: entries still to visit
    subRet,       \* what Subscribe returned to each handler
    ctxDone,      \* r.Context() of a stream request is done
    written,      \* the broadcast messages each handler wrote to its stream
    wroteZero,    \* the handler has written zero messages (closed channel)
    cancelled,    \* s.ctx is cancelled
    dbOpen,       \* s.db is open
    db,           \* the attendance table
    calls,        \* calls started so far (record IDs are drawn from it)
    result,       \* RecordAttendance: the recognition result of the call
    record,       \* RecordAttendance: the record of the call
    response,     \* RecordAttendance: the response returned last
    saveErr,      \* RecordAttendance: saveRecord returned an error
    sseStats,     \* what GetSSEStats returned last
    extUnsubs,    \* Unsubscribe calls made from outside so far
    bcastsLeft,   \* direct broadcast calls the driver still makes
    callsLeft,    \* attendance requests still to come
    panicked,     \* a goroutine panicked (send on / close of a closed channel)
    \* history of the run, read by the properties only
    bcastLog,     \* the messages broadcast was called with, in order
    targets,      \* per client ID: the messages broadcast while it was registered
    missed,       \* per client ID: the messages broadcast before it registered
    dropped,      \* per client ID: the messages dropped at a full buffer
    closeCount,   \* per channel: close() calls executed
    sweepRemoved, \* entries the sweep deleted
    \* the handlers of the other routes, and the firmware
    fw,           \* the ESP32-CAM: pins, WiFi, the API response it got
    recent,       \* GET /api/attendance/recent: the limit used and the reply
    dbStats,      \* GetAttendanceStats: the counts read so far
    http,         \* error replies (http.Error / jsonError) and upload replies
    addFaceLog    \* the calls of faceClient.AddFace, in order

vars == <<clients, chans, rw, pc, arg, message, todo, subRet, ctxDone, written,
          wroteZero, cancelled, dbOpen, db, calls, result, record, response,
          saveErr, sseStats, extUnsubs, bcastsLeft, callsLeft, panicked, bcastLog,
          targets,
          missed, dropped, closeCount, sweepRemoved, fw, recent, dbStats,
          http, addFaceLog>>

svcVars == <<cancelled, dbOpen>>
ctlVars == <<extUnsubs, bcastsLeft, callsLeft>>
recVars == <<db, result, record, response, saveErr>>
histVars == <<bcastLog, targets, missed, dropped, closeCount, sweepRemoved>>
extVars == <<fw, recent, dbStats, http, addFaceLog>>

\* ------------------------------------------------------------ domain
\* the zero domain.AttendanceRecord; no response yet
ZeroRecord == [ID |-> 0, Name |-> "", Confidence |-> 0, Status |-> ""]
\* GetSSEStats has not returned yet
NoStats == [total_clients |-> -1, active_clients |-> -1]
\* no message, no subscription
NoMessage == [Event |-> "", Data |-> ZeroRecord]
NoSub == [id |-> None, ch |-> None]
NoResponse == [Success |-> FALSE, Authorized |-> FALSE, Name |-> "",
               Confidence |-> 0, Message |-> "", Action |-> ""]
\* no recognition result yet
NoResult == [Err |-> FALSE, Success |-> FALSE, FacesDetected |-> -1,
             Faces |-> << >>]

\* the elements of a sequence; the record IDs of a sequence of messages
Range(seq) == {seq[k] : k \in 1..Len(seq)}
EventIDs(seq) == {seq[k].Data.ID : k \in 1..Len(seq)}

\* ------------------------------------------------------------ s.mu
\* sync.RWMutex: Lock is granted when nobody holds the mutex, RLock when no
\* writer holds it.
\* a Lock that does not wait for the readers
CanLockDespiteReaders == rw.writer = None
CanLock == rw.writer = None /\ rw.readers = {}
CanRLock == rw.writer = None
Lock(p) == [rw EXCEPT !.writer = p]
Unlock(p) == [rw EXCEPT !.writer = None]
RLock(p) == [rw EXCEPT !.readers = @ \cup {p}]
RUnlock(p) == [rw EXCEPT !.readers = @ \ {p}]

\* ------------------------------------------------------------ the map
\* a delete that empties the map / that deletes nothing
MapDeleteAll(m, k) == << >>
MapDeleteNothing(m, k) == m

MapPut(m, k, v) == [i \in DOMAIN m \cup {k} |-> IF i = k THEN v ELSE m[i]]
MapDelete(m, k) == [i \in DOMAIN m \ {k} |-> m[i]]

\* ------------------------------------------------------------ the rest
\* An HTTP reply as the firmware sees it: the response code (<= 0 when the
\* request failed), whether the body parses as JSON, the keys of the JSON
\* object and the values of the keys that are read.  NoDoc: no reply.
\* The firmware after setup(): the relay pin LOW, nothing captured yet.
NoDoc == [code |-> 0, parsed |-> FALSE, keys |-> {}, success |-> FALSE,
          authorized |-> FALSE, action |-> ""]
FwBoot == [relay |-> "LOW", wifi |-> TRUE, doc |-> NoDoc, recognized |-> FALSE,
           heldMs |-> 0, pulses |-> 0, captures |-> 0]
\* No reply yet from the other routes.  http holds, for each route, the
\* last request and the status the handler answered by itself (0: none, or
\* the service was called and its response is the reply).
NoRecent == [query |-> << >>, limit |-> 0, records |-> << >>, served |-> FALSE]
NoDBStats == [total |-> -1, authorized |-> -1, unauthorized |-> -1,
              unique_people |-> -1, returned |-> FALSE]
NoRequest == [method |-> "", form |-> FALSE, image |-> FALSE, size |-> 0,
              readable |-> FALSE]
NoUpload == [method |-> "", form |-> FALSE, name |-> "", images |-> << >>]
NoHTTP == [attendance |-> 0, areq |-> NoRequest, upload |-> 0,
           ureq |-> NoUpload, images_added |-> -1, recent |-> 0]

InitExt ==
    /\ fw = FwBoot
    /\ recent = NoRecent
    /\ dbStats = NoDBStats
    /\ http = NoHTTP
    /\ addFaceLog = << >>

\* The service as NewAttendanceService leaves it, but for the rows of the
\* attendance table: no subscriber, the database open, the sweep goroutine
\* started; the run goes on to make n direct calls of broadcast and m
\* attendance requests.
InitOpened(n, m) ==
    /\ clients = << >>
    /\ chans = << >>
    /\ rw = [writer |-> None, readers |-> {}]
    /\ pc = [p \in Procs |-> "idle"]
    /\ arg = [p \in Procs |-> None]
    /\ message = [p \in Procs |-> NoMessage]
    /\ todo = [p \in Procs |-> {}]
    /\ subRet = [h \in Handlers |-> NoSub]
    /\ ctxDone = [h \in Handlers |-> FALSE]
    /\ written = [h \in Handlers |-> << >>]
    /\ wroteZero = [h \in Handlers |-> FALSE]
    /\ cancelled = FALSE
    /\ dbOpen = TRUE
    /\ calls = 0
    /\ result = [r \in Recorders |-> NoResult]
    /\ record = [r \in Recorders |-> ZeroRecord]
    /\ response = [r \in Recorders |-> NoResponse]
    /\ saveErr = [r \in Recorders |-> FALSE]
    /\ sseStats = NoStats
    /\ extUnsubs = 0
    /\ bcastsLeft = n
    /\ callsLeft = m
    /\ panicked = FALSE
    /\ bcastLog = << >>
    /\ missed = [i \in ClientIDs |-> {}]
    /\ targets = [i \in ClientIDs |-> {}]
    /\ dropped = [i \in ClientIDs |-> {}]
    /\ closeCount = [i \in ClientIDs |-> 0]
    /\ sweepRemoved = 0
    /\ InitExt

\* NewAttendanceService on a new database file: the table is empty
InitService(n, m) == InitOpened(n, m) /\ db = {}

InitEmpty == InitService(MaxBroadcasts, 0)
InitRegistry == InitService(1, 0)

\* ------------------------------------------------------------ Subscribe
\* AttendanceStream up to Subscribe's s.mu.Lock()
SubscribeLock(h) ==
    /\ pc[h] = "idle"
    /\ CanLock
    /\ rw' = Lock(h)
    /\ pc' = [pc EXCEPT ![h] = "subscribe"]
    /\ UNCHANGED <<clients, chans, arg, message, todo, subRet, ctxDone, written,
                   wroteZero, calls, sseStats, ctlVars, panicked>>
    /\ UNCHANGED <<svcVars, recVars, histVars>>
    /\ UNCHANGED extVars

\* an unbuffered channel
MakeChanUnbuffered == [buf |-> << >>, cap |-> 0, closed |-> FALSE]

\* ch := make(chan domain.SSEMessage, 10)
MakeChan == [buf |-> << >>, cap |-> ChanCap, closed |-> FALSE]

\* a client registered without being marked active
NewClientInactive(id, ch) == [id |-> id, channel |-> ch, active |-> FALSE]

\* client := &SSEClient{id: clientID, channel: ch, active: true}
NewClient(id, ch) == [id |-> id, channel |-> ch, active |-> TRUE]

\* The body of Subscribe and its deferred Unlock.  The channel is named by
\* the client ID it is made for.
Subscribe(h) ==
    /\ pc[h] = "subscribe"
    /\ LET id == NewClientID(h)
           ch == id
       IN /\ chans' = MapPut(chans, ch, MakeChan)
          /\ clients' = MapPut(clients, id, NewClient(id, ch))
          /\ subRet' = [subRet EXCEPT ![h] = [id |-> id, ch |-> ch]]
          /\ missed' = [missed EXCEPT ![id] = EventIDs(bcastLog)]
    /\ rw' = Unlock(h)
    /\ pc' = [pc EXCEPT ![h] = "stream"]
    /\ UNCHANGED <<arg, message, todo, ctxDone, written, wroteZero, calls, sseStats,
                   ctlVars, panicked>>
    /\ UNCHANGED <<svcVars, recVars, bcastLog, targets, dropped, closeCount,
                   sweepRemoved>>
    /\ UNCHANGED extVars

\* ------------------------------------------------------------ the stream
\* The client goes away: the request context is done.
ClientDisconnect(h) ==
    /\ pc[h] = "stream"
    /\ ~ctxDone[h]
    /\ ctxDone' = [ctxDone EXCEPT ![h] = TRUE]
    /\ UNCHANGED <<clients, chans, rw, pc, arg, message, todo, subRet, written,
                   wroteZero, calls, sseStats, ctlVars, panicked>>
    /\ UNCHANGED <<svcVars, recVars, histVars>>
    /\ UNCHANGED extVars

\* a receive that leaves the message in the channel
RecvPeek(ch) == ch

\* msg := <-messageChan with a message buffered: what is left in the channel
Recv(ch) == [ch EXCEPT !.buf = Tail(@)]

\* a handler that receives a message and writes nothing
EmitNothing(stream, msg) == stream

\* fmt.Fprintf(w, "event: %s\n", msg.Event); fmt.Fprintf(w, "data: %s\n\n",
\* data); flusher.Flush()
Emit(stream, msg) == Append(stream, msg)

\* case msg := <-messageChan, a buffered message: it is marshalled and
\* written as "event: ..." / "data: ..." and flushed.
StreamWrite(h) ==
    /\ pc[h] = "stream"
    /\ LET ch == subRet[h].ch
       IN /\ chans[ch].buf # << >>
          /\ written' = [written EXCEPT ![h] = Emit(@, Head(chans[ch].buf))]
          /\ chans' = [chans EXCEPT ![ch] = Recv(@)]
    /\ UNCHANGED <<clients, rw, pc, arg, message, todo, subRet, ctxDone, wroteZero,
                   calls, sseStats, ctlVars, panicked>>
    /\ UNCHANGED <<svcVars, recVars, histVars>>
    /\ UNCHANGED extVars

\* case msg := <-messageChan on a closed and drained channel: the receive
\* yields the zero message at once, and the handler writes it, again and
\* again, after everything else it wrote.
StreamWriteZero(h) ==
    /\ pc[h] = "stream"
    /\ LET ch == subRet[h].ch
       IN /\ chans[ch].buf = << >>
          /\ chans[ch].closed
    /\ wroteZero' = [wroteZero EXCEPT ![h] = TRUE]
    /\ UNCHANGED <<clients, chans, rw, pc, arg, message, todo, subRet, ctxDone, written,
                   calls, sseStats, ctlVars, panicked>>
    /\ UNCHANGED <<svcVars, recVars, histVars>>
    /\ UNCHANGED extVars

\* case <-ctx.Done(): return, which runs the deferred Unsubscribe
StreamDone(h) ==
    /\ pc[h] = "stream"
    /\ ctxDone[h]
    /\ arg' = [arg EXCEPT ![h] = subRet[h].id]
    /\ pc' = [pc EXCEPT ![h] = "unsub_lock"]
    /\ UNCHANGED <<clients, chans, rw, message, todo, subRet, ctxDone, written,
                   wroteZero, calls, sseStats, ctlVars, panicked>>
    /\ UNCHANGED <<svcVars, recVars, histVars>>
    /\ UNCHANGED extVars

\* ------------------------------------------------------------ Unsubscribe
\* A call of Unsubscribe from outside the stream handlers, with any ID.
UnsubscribeCall(u, id) ==
    /\ pc[u] = "idle"
    /\ extUnsubs < MaxExtUnsub
    /\ extUnsubs' = extUnsubs + 1
    /\ arg' = [arg EXCEPT ![u] = id]
    /\ pc' = [pc EXCEPT ![u] = "unsub_lock"]
    /\ UNCHANGED <<clients, chans, rw, message, todo, subRet, ctxDone, written,
                   wroteZero, calls, sseStats, bcastsLeft, callsLeft, panicked>>
    /\ UNCHANGED <<svcVars, recVars, histVars>>
    /\ UNCHANGED extVars

UnsubscribeLock(p) ==
    /\ pc[p] = "unsub_lock"
    /\ CanLock
    /\ rw' = Lock(p)
    /\ pc' = [pc EXCEPT ![p] = "unsubscribe"]
    /\ UNCHANGED <<clients, chans, arg, message, todo, subRet, ctxDone, written,
                   wroteZero, calls, sseStats, ctlVars, panicked>>
    /\ UNCHANGED <<svcVars, recVars, histVars>>
    /\ UNCHANGED extVars

\* where a caller goes when its call returns
Returned(p) == IF p \in Handlers THEN "done" ELSE "idle"

\* a close that leaves the channel open
CloseChanNot(ch) == ch

\* close(client.channel)
CloseChan(ch) == [ch EXCEPT !.closed = TRUE]

\* client.active = false
Deactivate(m, k) == [m EXCEPT ![k].active = FALSE]

\* The body of Unsubscribe and its deferred Unlock.  close() of a closed
\* channel panics: the entry, already marked inactive, is then not deleted.
Unsubscribe(p) ==
    /\ pc[p] = "unsubscribe"
    /\ LET clientID == arg[p]
       IN IF clientID \in DOMAIN clients
          THEN LET ch == clients[clientID].channel
               IN IF chans[ch].closed
                  THEN /\ clients' = Deactivate(clients, clientID)
                       /\ panicked' = TRUE
                       /\ UNCHANGED <<chans, closeCount>>
                  ELSE /\ chans' = [chans EXCEPT ![ch] = CloseChan(@)]
                       /\ closeCount' = [closeCount EXCEPT ![ch] = @ + 1]
                       /\ clients' = MapDelete(Deactivate(clients, clientID),
                                               clientID)
                       /\ UNCHANGED panicked
          ELSE UNCHANGED <<clients, chans, closeCount, panicked>>
    /\ rw' = Unlock(p)
    /\ pc' = [pc EXCEPT ![p] = Returned(p)]
    /\ arg' = [arg EXCEPT ![p] = None]
    /\ UNCHANGED <<message, todo, subRet, ctxDone, written, wroteZero, calls,
                   sseStats, ctlVars>>
    /\ UNCHANGED <<svcVars, recVars, bcastLog, targets, missed, dropped,
                   sweepRemoved>>
    /\ UNCHANGED extVars


\* ------------------------------------------------------------ broadcast
\* record := domain.AttendanceRecord{ID: uuid.New().String(), ...}
MkRecord(id, face, status) ==
    [ID |-> id, Name |-> face.Name, Confidence |-> face.Confidence,
     Status |-> status]

\* domain.SSEMessage{Event: "attendance", Data: record}
MkMessage(rec) == [Event |-> "attendance", Data |-> rec]

Alice == [Name |-> "alice", Confidence |-> 95]
Unknown == [Name |-> "Unknown", Confidence |-> 0]

\* A call of broadcast from the broker driver: the message of a record
\* with a fresh ID.
BroadcastCall(b) ==
    /\ pc[b] = "idle"
    /\ bcastsLeft > 0
    /\ bcastsLeft' = bcastsLeft - 1
    /\ calls' = calls + 1
    /\ message' = [message EXCEPT ![b] =
                     MkMessage(MkRecord(calls + 1, Alice, "authorized"))]
    /\ pc' = [pc EXCEPT ![b] = "b_rlock"]
    /\ UNCHANGED <<clients, chans, rw, arg, todo, subRet, ctxDone, written,
                   wroteZero, sseStats, extUnsubs, callsLeft, panicked>>
    /\ UNCHANGED <<svcVars, recVars, histVars>>
    /\ UNCHANGED extVars

\* s.mu.RLock(); the range over s.clients starts with every entry to visit
BroadcastRLock(p) ==
    /\ pc[p] = "b_rlock"
    /\ CanRLock
    /\ rw' = RLock(p)
    /\ todo' = [todo EXCEPT ![p] = DOMAIN clients]
    /\ bcastLog' = Append(bcastLog, message[p])
    /\ targets' = [i \in ClientIDs |->
                      IF i \in DOMAIN clients
                      THEN targets[i] \cup {message[p].Data.ID} ELSE targets[i]]
    /\ pc' = [pc EXCEPT ![p] = "b_send"]
    /\ UNCHANGED <<clients, chans, arg, message, subRet, ctxDone, written, wroteZero,
                   calls, sseStats, ctlVars, panicked>>
    /\ UNCHANGED <<svcVars, recVars, missed, dropped, closeCount, sweepRemoved>>
    /\ UNCHANGED extVars

\* a send that ignores the capacity of the channel
TrySendUnbounded(ch, msg) == [ch EXCEPT !.buf = Append(@, msg)]

\* select { case client.channel <- msg: ... default: ... } on a channel:
\* the message is buffered when there is room, and dropped when there is none.
TrySend(ch, msg) ==
    IF Len(ch.buf) < ch.cap THEN [ch EXCEPT !.buf = Append(@, msg)] ELSE ch

\* One iteration of the range, for the entry clientID (the order of a map
\* range is not defined).  An entry deleted since the range began is not
\* produced; a send on a closed channel panics.
BroadcastSend(p, clientID) ==
    /\ pc[p] = "b_send"
    /\ clientID \in todo[p]
    /\ todo' = [todo EXCEPT ![p] = @ \ {clientID}]
    /\ IF clientID \notin DOMAIN clients \/ ~clients[clientID].active
       THEN UNCHANGED <<chans, dropped, panicked>>
       ELSE LET ch == clients[clientID].channel
            IN IF chans[ch].closed
               THEN /\ panicked' = TRUE
                    /\ UNCHANGED <<chans, dropped>>
               ELSE /\ chans' = [chans EXCEPT ![ch] = TrySend(@, message[p])]
                    /\ dropped' = IF chans'[ch] = chans[ch]
                                  THEN [dropped EXCEPT ![clientID] =
                                            @ \cup {message[p].Data.ID}]
                                  ELSE dropped
                    /\ UNCHANGED panicked
    /\ UNCHANGED <<clients, rw, pc, arg, message, subRet, ctxDone, written, wroteZero,
                   calls, sseStats, ctlVars>>
    /\ UNCHANGED <<svcVars, recVars, bcastLog, targets, missed, closeCount,
                   sweepRemoved>>
    /\ UNCHANGED extVars

\* where broadcast returns to
AfterBroadcast(p) == IF p \in Recorders THEN "respond" ELSE "idle"

\* the range is over: the deferred s.mu.RUnlock()
BroadcastRUnlock(p) ==
    /\ pc[p] = "b_send"
    /\ todo[p] = {}
    /\ rw' = RUnlock(p)
    /\ pc' = [pc EXCEPT ![p] = AfterBroadcast(p)]
    /\ message' = [message EXCEPT ![p] = NoMessage]
    /\ UNCHANGED <<clients, chans, arg, todo, subRet, ctxDone, written,
                   wroteZero, calls, sseStats, ctlVars, panicked>>
    /\ UNCHANGED <<svcVars, recVars, histVars>>
    /\ UNCHANGED extVars

\* ------------------------------------------------------------ the sweep
\* case <-ticker.C: s.mu.Lock()
SweepLock ==
    /\ pc[Sweeper] \in {"idle", "wait"}
    /\ CanLock
    /\ rw' = Lock(Sweeper)
    /\ pc' = [pc EXCEPT ![Sweeper] = "sweep"]
    /\ UNCHANGED <<clients, chans, arg, message, todo, subRet, ctxDone, written,
                   wroteZero, calls, sseStats, ctlVars, panicked>>
    /\ UNCHANGED <<svcVars, recVars, histVars>>
    /\ UNCHANGED extVars

\* a sweep that keeps no entry
ActiveClientsNone(m) == {}

\* the entries the sweep keeps
ActiveClients(m) == {i \in DOMAIN m : m[i].active}

\* Remove inactive clients, then s.mu.Unlock(); the goroutine waits for the
\* next tick.
Sweep ==
    /\ pc[Sweeper] = "sweep"
    /\ clients' = [i \in ActiveClients(clients) |-> clients[i]]
    /\ sweepRemoved' = sweepRemoved +
                           Cardinality(DOMAIN clients \ ActiveClients(clients))
    /\ rw' = Unlock(Sweeper)
    /\ pc' = [pc EXCEPT ![Sweeper] = "wait"]
    /\ UNCHANGED <<chans, arg, message, todo, subRet, ctxDone, written, wroteZero,
                   calls, sseStats, ctlVars, panicked>>
    /\ UNCHANGED <<svcVars, recVars, bcastLog, targets, missed, dropped,
                   closeCount>>
    /\ UNCHANGED extVars

\* case <-s.ctx.Done(): return
SweepStop ==
    /\ pc[Sweeper] \in {"idle", "wait"}
    /\ cancelled
    /\ pc' = [pc EXCEPT ![Sweeper] = "done"]
    /\ UNCHANGED <<clients, chans, rw, arg, message, todo, subRet, ctxDone, written,
                   wroteZero, calls, sseStats, ctlVars, panicked>>
    /\ UNCHANGED <<svcVars, recVars, histVars>>
    /\ UNCHANGED extVars

\* ------------------------------------------------------------ Close
\* s.cancel()
CloseCancel ==
    /\ pc[Closer] = "idle"
    /\ cancelled' = TRUE
    /\ pc' = [pc EXCEPT ![Closer] = "close_lock"]
    /\ UNCHANGED <<clients, chans, rw, arg, message, todo, subRet, ctxDone, written,
                   wroteZero, dbOpen, calls, sseStats, ctlVars, panicked>>
    /\ UNCHANGED <<recVars, histVars>>
    /\ UNCHANGED extVars

CloseLock ==
    /\ pc[Closer] = "close_lock"
    /\ CanLock
    /\ rw' = Lock(Closer)
    /\ pc' = [pc EXCEPT ![Closer] = "close"]
    /\ UNCHANGED <<clients, chans, arg, message, todo, subRet, ctxDone, written,
                   wroteZero, calls, sseStats, ctlVars, panicked>>
    /\ UNCHANGED <<svcVars, recVars, histVars>>
    /\ UNCHANGED extVars

\* The loop of Close and s.mu.Unlock(): every active client's channel is
\* closed and every entry deleted.  close() of a closed channel panics, and
\* Close, which defers nothing, then never unlocks.
CloseAll ==
    /\ pc[Closer] = "close"
    /\ LET act == ActiveClients(clients)
       IN IF \E i \in act : chans[clients[i].channel].closed
          THEN /\ panicked' = TRUE
               /\ pc' = [pc EXCEPT ![Closer] = "panic"]
               /\ UNCHANGED <<clients, chans, closeCount, rw>>
          ELSE /\ chans' = [c \in DOMAIN chans |->
                               IF \E i \in act : clients[i].channel = c
                               THEN CloseChan(chans[c])
                               ELSE chans[c]]
               /\ closeCount' = [c \in DOMAIN closeCount |->
                               IF \E i \in act : clients[i].channel = c
                               THEN closeCount[c] + 1
                               ELSE closeCount[c]]
               /\ clients' = << >>
               /\ rw' = Unlock(Closer)
               /\ pc' = [pc EXCEPT ![Closer] = "close_db"]
               /\ UNCHANGED panicked
    /\ UNCHANGED <<arg, message, todo, subRet, ctxDone, written, wroteZero, calls,
                   sseStats, ctlVars>>
    /\ UNCHANGED <<svcVars, recVars, bcastLog, targets, missed, dropped,
                   sweepRemoved>>
    /\ UNCHANGED extVars

\* return s.db.Close()
CloseDB ==
    /\ pc[Closer] = "close_db"
    /\ dbOpen' = FALSE
    /\ pc' = [pc EXCEPT ![Closer] = "done"]
    /\ UNCHANGED <<clients, chans, rw, arg, message, todo, subRet, ctxDone, written,
                   wroteZero, cancelled, calls, sseStats, ctlVars, panicked>>
    /\ UNCHANGED <<recVars, histVars>>
    /\ UNCHANGED extVars

\* ------------------------------------------------------------ GetSSEStats
StatsRLock ==
    /\ pc[StatsCaller] = "idle"
    /\ CanRLock
    /\ rw' = RLock(StatsCaller)
    /\ pc' = [pc EXCEPT ![StatsCaller] = "stats"]
    /\ UNCHANGED <<clients, chans, arg, message, todo, subRet, ctxDone, written,
                   wroteZero, calls, sseStats, ctlVars, panicked>>
    /\ UNCHANGED <<svcVars, recVars, histVars>>
    /\ UNCHANGED extVars

\* the count of active clients, the returned map, the deferred RUnlock
GetSSEStats ==
    /\ pc[StatsCaller] = "stats"
    /\ sseStats' = [total_clients |-> Cardinality(DOMAIN clients),
                    active_clients |-> Cardinality(ActiveClients(clients))]
    /\ rw' = RUnlock(StatsCaller)
    /\ pc' = [pc EXCEPT ![StatsCaller] = "idle"]
    /\ UNCHANGED <<clients, chans, arg, message, todo, subRet, ctxDone, written,
                   wroteZero, calls, ctlVars, panicked>>
    /\ UNCHANGED <<svcVars, recVars, histVars>>
    /\ UNCHANGED extVars

\* ------------------------------------------------------------ RecordAttendance
\* What the recognition service answers to POST /recognize: faces_detected
\* is the number of entries of faces, a face it does not know is named
\* "Unknown" with confidence 0.
FacePool == {Alice, Unknown}
FaceSeqs == UNION {[1..n -> FacePool] : n \in 0..MaxFaces}
RecognitionResults ==
    {[Err |-> FALSE, Success |-> TRUE, FacesDetected |-> Len(f), Faces |-> f] :
        f \in FaceSeqs}

\* RecognizeFace returned (nil, err)
RecognizeFailed == [Err |-> TRUE, Success |-> FALSE, FacesDetected |-> 0,
                    Faces |-> << >>]

FailedResponse == [Success |-> FALSE, Authorized |-> FALSE, Name |-> "",
                   Confidence |-> 0, Message |-> "Failed to recognize face",
                   Action |-> "keep_closed"]
NoFaceResponse == [Success |-> TRUE, Authorized |-> FALSE, Name |-> "",
                   Confidence |-> 0, Message |-> "No face detected",
                   Action |-> "keep_closed"]

\* a decision taken on the last face of the result
LastFace(res) == res.Faces[Len(res.Faces)]

\* face := result.Faces[0]
FirstFace(res) == res.Faces[1]

\* authorized := face.Name != "Unknown"
Authorized(face) == face.Name # "Unknown"

\* status, action and message, set by "if authorized { ... }"
StatusOf(face) == IF Authorized(face) THEN "authorized" ELSE "unauthorized"
ActionOf(face) == IF Authorized(face) THEN "open_door" ELSE "keep_closed"
MessageOf(face) ==
    IF Authorized(face) THEN "Welcome, " \o face.Name ELSE "Unknown person"

\* the response of a call that found a face
FaceResponse(face) ==
    [Success |-> TRUE, Authorized |-> Authorized(face), Name |-> face.Name,
     Confidence |-> face.Confidence, Message |-> MessageOf(face),
     Action |-> ActionOf(face)]

\* a test for "no face" that never says so
NoFaceNever(res) == FALSE

\* result.FacesDetected == 0
NoFace(res) == res.FacesDetected = 0

\* saveRecord: the INSERT succeeds when the database is open and SQLite
\* reports no error (ok)
SaveRecord(rec, ok) == IF dbOpen /\ ok THEN db \cup {rec} ELSE db

\* RecordAttendance up to the call of broadcast: RecognizeFace answers res
\* (or fails), the two early returns, the decision on the first face, the
\* record with a fresh ID, saveRecord (its error is only printed).  Indexing
\* an empty faces list panics.  What the handler answers is its caller's.
RecordAttendance(r, res, ok) ==
    /\ pc[r] = "idle"
    /\ callsLeft > 0
    /\ callsLeft' = callsLeft - 1
    /\ calls' = calls + 1
    /\ result' = [result EXCEPT ![r] = res]
    /\ IF res.Err \/ NoFace(res)
       THEN /\ response' = [response EXCEPT ![r] =
                               IF res.Err THEN FailedResponse ELSE NoFaceResponse]
            /\ record' = [record EXCEPT ![r] = ZeroRecord]
            /\ UNCHANGED <<db, saveErr, message, pc, panicked>>
       ELSE IF res.Faces = << >>
       THEN /\ panicked' = TRUE
            /\ record' = [record EXCEPT ![r] = ZeroRecord]
            /\ UNCHANGED <<db, saveErr, message, pc, response>>
       ELSE LET face == FirstFace(res)
                rec == MkRecord(calls + 1, face, StatusOf(face))
            IN /\ record' = [record EXCEPT ![r] = rec]
               /\ db' = SaveRecord(rec, ok)
               /\ saveErr' = [saveErr EXCEPT ![r] = (db' = db)]
               /\ message' = [message EXCEPT ![r] = MkMessage(rec)]
               /\ pc' = [pc EXCEPT ![r] = "b_rlock"]
               /\ UNCHANGED <<response, panicked>>
    /\ UNCHANGED <<clients, chans, rw, arg, todo, subRet, ctxDone, written,
                   wroteZero, sseStats, extUnsubs, bcastsLeft>>
    /\ UNCHANGED <<svcVars, histVars>>
    /\ UNCHANGED <<fw, recent, dbStats, addFaceLog>>

\* return &domain.AttendanceResponse{...}, nil after broadcast
RecordRespond(r) ==
    /\ pc[r] = "respond"
    /\ response' = [response EXCEPT ![r] = FaceResponse(FirstFace(result[r]))]
    /\ pc' = [pc EXCEPT ![r] = "idle"]
    /\ UNCHANGED <<clients, chans, rw, arg, message, todo, subRet, ctxDone, written,
                   wroteZero, calls, sseStats, ctlVars, panicked>>
    /\ UNCHANGED <<svcVars, db, result, record, saveErr, histVars>>
    /\ UNCHANGED extVars

\* ------------------------------------------------------------ the broker
\* The subscriber registry driven through its own operations: stream
\* handlers, direct calls of broadcast, the sweep and Close.
NextBroker ==
    \/ \E h \in Handlers : SubscribeLock(h)
    \/ \E h \in Handlers : Subscribe(h)
    \/ \E h \in Handlers : ClientDisconnect(h)
    \/ \E h \in Handlers : StreamWrite(h)
    \/ \E h \in Handlers : StreamWriteZero(h)
    \/ \E h \in Handlers : StreamDone(h)
    \/ \E p \in Handlers : UnsubscribeLock(p)
    \/ \E p \in Handlers : Unsubscribe(p)
    \/ \E b \in Broadcasters : BroadcastCall(b)
    \/ \E b \in Broadcasters : BroadcastRLock(b)
    \/ \E b \in Broadcasters, id \in ClientIDs : BroadcastSend(b, id)
    \/ \E b \in Broadcasters : BroadcastRUnlock(b)
    \/ SweepLock
    \/ Sweep
    \/ SweepStop
    \/ CloseCancel
    \/ CloseLock
    \/ CloseAll
    \/ CloseDB

\* The messages broadcast before the run starts; their records carry the
\* IDs -1, -2, ..., apart from every ID drawn during the run.
Backlog(len) == [k \in 1..len |-> MkMessage(MkRecord(-k, Alice, "authorized"))]

\* The service after one handler, which subscribed and has not yet received
\* anything, was sent len messages, whose records are in the table; n and m
\* as for InitService.
InitBacklog(len, n, m) ==
    /\ clients = ("h1" :> NewClient("h1", "h1"))
    /\ chans = ("h1" :> [MakeChan EXCEPT !.buf = Backlog(len)])
    /\ rw = [writer |-> None, readers |-> {}]
    /\ pc = [p \in Procs |-> IF p = "h1" THEN "stream" ELSE "idle"]
    /\ arg = [p \in Procs |-> None]
    /\ message = [p \in Procs |-> NoMessage]
    /\ todo = [p \in Procs |-> {}]
    /\ subRet = [h \in Handlers |->
                    IF h = "h1" THEN [id |-> "h1", ch |-> "h1"] ELSE NoSub]
    /\ ctxDone = [h \in Handlers |-> FALSE]
    /\ written = [h \in Handlers |-> << >>]
    /\ wroteZero = [h \in Handlers |-> FALSE]
    /\ cancelled = FALSE
    /\ dbOpen = TRUE
    /\ db = {Backlog(len)[k].Data : k \in 1..len}
    /\ calls = 0
    /\ result = [r \in Recorders |-> NoResult]
    /\ record = [r \in Recorders |-> ZeroRecord]
    /\ response = [r \in Recorders |-> NoResponse]
    /\ saveErr = [r \in Recorders |-> FALSE]
    /\ sseStats = NoStats
    /\ extUnsubs = 0
    /\ bcastsLeft = n
    /\ callsLeft = m
    /\ panicked = FALSE
    /\ bcastLog = Backlog(len)
    /\ missed = [i \in ClientIDs |-> {}]
    /\ targets = [i \in ClientIDs |->
                     IF i = "h1" THEN EventIDs(Backlog(len)) ELSE {}]
    /\ dropped = [i \in ClientIDs |-> {}]
    /\ closeCount = [i \in ClientIDs |-> 0]
    /\ sweepRemoved = 0
    /\ InitExt

SpecBroker ==
    (InitEmpty \/ InitBacklog(PreFill, MaxBroadcasts, 0)) /\ [][NextBroker]_vars

\* ------------------------------------------------------------ the registry
\* Every goroutine that takes s.mu: the broker's, GetSSEStats and direct
\* calls of Unsubscribe with any ID.
NextRegistry ==
    \/ \E h \in Handlers : SubscribeLock(h)
    \/ \E h \in Handlers : Subscribe(h)
    \/ \E h \in Handlers : ClientDisconnect(h)
    \/ \E h \in Handlers : StreamWrite(h)
    \/ \E h \in Handlers : StreamWriteZero(h)
    \/ \E h \in Handlers : StreamDone(h)
    \/ \E u \in Unsubscribers, id \in ClientIDs : UnsubscribeCall(u, id)
    \/ \E p \in Handlers \cup Unsubscribers : UnsubscribeLock(p)
    \/ \E p \in Handlers \cup Unsubscribers : Unsubscribe(p)
    \/ \E b \in Broadcasters : BroadcastCall(b)
    \/ \E b \in Broadcasters : BroadcastRLock(b)
    \/ \E b \in Broadcasters, id \in ClientIDs : BroadcastSend(b, id)
    \/ \E b \in Broadcasters : BroadcastRUnlock(b)
    \/ SweepLock
    \/ Sweep
    \/ SweepStop
    \/ CloseCancel
    \/ CloseLock
    \/ CloseAll
    \/ CloseDB
    \/ StatsRLock
    \/ GetSSEStats

SpecRegistry == InitRegistry /\ [][NextRegistry]_vars


\* ------------------------------------------------------------ the gateway
\* The requests the server serves: attendance requests and stream requests,
\* from a fresh service or behind a stalled subscriber.
InitFresh == InitService(0, MaxCalls)
Init == InitFresh \/ InitBacklog(Buffered, 0, MaxCalls)

Next ==
    \/ \E h \in Handlers : SubscribeLock(h)
    \/ \E h \in Handlers : Subscribe(h)
    \/ \E h \in Handlers : ClientDisconnect(h)
    \/ \E h \in Handlers : StreamWrite(h)
    \/ \E h \in Handlers : StreamDone(h)
    \/ \E h \in Handlers : UnsubscribeLock(h)
    \/ \E h \in Handlers : Unsubscribe(h)
    \/ \E r \in Recorders, res \in RecognitionResults \cup {RecognizeFailed},
          ok \in BOOLEAN : RecordAttendance(r, res, ok) /\ UNCHANGED http
    \/ \E r \in Recorders : BroadcastRLock(r)
    \/ \E r \in Recorders, id \in ClientIDs : BroadcastSend(r, id)
    \/ \E r \in Recorders : BroadcastRUnlock(r)
    \/ \E r \in Recorders : RecordRespond(r)

Spec == Init /\ [][Next]_vars

\* The same requests while Close may run, with the scheduler's fairness:
\* a goroutine that can send, or receive and write, eventually does.
NextLive ==
    \/ Next
    \/ \E h \in Handlers : StreamWriteZero(h)
    \/ CloseCancel
    \/ CloseLock
    \/ CloseAll
    \/ CloseDB

Fairness ==
    /\ \A h \in Handlers : WF_vars(StreamWrite(h))
    /\ \A r \in Recorders : WF_vars(\E id \in ClientIDs : BroadcastSend(r, id))

SpecLive == InitFresh /\ [][NextLive]_vars /\ Fairness

\* ------------------------------------------------------------ properties
HandlerOf(id) == CHOOSE h \in Handlers : NewClientID(h) = id
Senders == Broadcasters \cup Recorders

\* what the subscriber with this ID has got so far: written, then buffered
Got(id) == written[HandlerOf(id)] \o (IF id \in DOMAIN chans
                                      THEN chans[id].buf ELSE << >>)

\* C1, one iteration of broadcast: the entry visited is registered and
\* active; its channel gets the message appended when it holds fewer than
\* 10 messages and is left as it is when it holds 10; no other channel
\* changes and nothing panics.
C1_SendStep ==
    \A b \in Senders, id \in ClientIDs :
        (pc[b] = "b_send" /\ id \in todo[b] /\ id \notin todo'[b]) =>
            /\ id \in DOMAIN clients
            /\ clients[id].active
            /\ LET ch == clients[id].channel
               IN /\ chans'[ch].buf = IF Len(chans[ch].buf) < 10
                                      THEN Append(chans[ch].buf, message[b])
                                      ELSE chans[ch].buf
                  /\ \A c \in DOMAIN chans \ {ch} : chans'[c] = chans[c]
            /\ ~panicked'

\* C1, the return of broadcast: every registered subscriber was visited
\* once; the message was dropped for it or was sent to it, whatever the
\* state of the other subscribers.
C1_ReturnStep ==
    \A b \in Senders :
        (pc[b] = "b_send" /\ pc'[b] # "b_send") =>
            \A id \in DOMAIN clients :
                (message[b].Data.ID \in dropped[id])
                    # (message[b] \in Range(Got(id)))

\* C1, no waiting: a broadcast in its loop can always take its next step,
\* whatever the consumers do.
C1_NeverWaits ==
    \A b \in Senders :
        pc[b] = "b_send" =>
            IF todo[b] = {}
            THEN ENABLED BroadcastRUnlock(b)
            ELSE \A id \in todo[b] : ENABLED BroadcastSend(b, id)

\* C1: broadcast makes one non-blocking send per registered active
\* subscriber (appended below 10 buffered messages, dropped at 10 with the
\* buffer unchanged), a full subscriber does not keep the others from
\* getting the event, and broadcast never waits for a consumer.
C1_BroadcastNonBlocking ==
    /\ [][C1_SendStep /\ C1_ReturnStep]_vars
    /\ []C1_NeverWaits

\* C1 witness: an event was dropped for the full subscriber h1 and the
\* same event is in the buffer of h2.
C1_Witness ==
    /\ "h2" \in DOMAIN chans
    /\ \E e \in dropped["h1"] : e \in EventIDs(chans["h2"].buf)
    /\ Len(chans["h1"].buf) = 10

\* C2: at most once, no retry: no broadcast event occurs twice in what a
\* subscriber was sent, and no event that was dropped for it or broadcast
\* before it registered is ever among what it was sent.
C2_AtMostOnce ==
    \A id \in ClientIDs :
        LET got == Got(id)
        IN /\ \A i, j \in 1..Len(got) :
                  i # j => got[i].Data.ID # got[j].Data.ID
           /\ EventIDs(got) \cap (dropped[id] \cup missed[id]) = {}

\* C2 witness: h1 had an event dropped and has since written its whole
\* buffer; h2 registered after some events and has written a later one.
C2_Witness ==
    /\ dropped["h1"] # {}
    /\ "h1" \in DOMAIN chans /\ chans["h1"].buf = << >>
    /\ Len(written["h1"]) >= 10
    /\ missed["h2"] # {}
    /\ written["h2"] # << >>

\* C3: Subscribe makes a new, empty, open channel of capacity 10, puts a
\* client marked active that holds this channel into the registry under
\* the ID it returns, returns that ID with that channel, and leaves every
\* other entry and channel as it was.
C3_SubscribeStep ==
    \A h \in Handlers :
        (pc[h] = "subscribe" /\ pc'[h] # "subscribe") =>
            LET r == subRet'[h]
            IN /\ r.ch \notin DOMAIN chans
               /\ chans'[r.ch] = [buf |-> << >>, cap |-> 10, closed |-> FALSE]
               /\ DOMAIN clients' = DOMAIN clients \cup {r.id}
               /\ clients'[r.id] = [id |-> r.id, channel |-> r.ch, active |-> TRUE]
               /\ \A i \in DOMAIN clients \ {r.id} : clients'[i] = clients[i]
               /\ \A c \in DOMAIN chans : chans'[c] = chans[c]

C3_Subscribe == [][C3_SubscribeStep]_vars

\* C3 witness: a handler has subscribed while another subscriber, with
\* messages buffered, was registered.
C3_Witness ==
    /\ pc["h2"] = "stream"
    /\ DOMAIN clients = {"h1", "h2"}
    /\ chans["h1"].buf # << >>
    /\ chans["h2"].buf = << >> /\ written["h2"] = << >>

\* C4: Unsubscribe of a registered ID closes the client's channel and
\* removes exactly that entry; every other entry and every other channel,
\* with what it buffers, is unchanged, and the closed channel keeps its
\* buffered messages.
C4_UnsubscribeStep ==
    \A p \in Handlers \cup Unsubscribers :
        (pc[p] = "unsubscribe" /\ pc'[p] # "unsubscribe"
         /\ arg[p] \in DOMAIN clients) =>
            LET ch == clients[arg[p]].channel
            IN /\ DOMAIN clients' = DOMAIN clients \ {arg[p]}
               /\ \A i \in DOMAIN clients' : clients'[i] = clients[i]
               /\ chans'[ch] = [chans[ch] EXCEPT !.closed = TRUE]
               /\ ~chans[ch].closed
               /\ \A c \in DOMAIN chans \ {ch} : chans'[c] = chans[c]

C4_Unsubscribe == [][C4_UnsubscribeStep]_vars

\* C4 witness: h1 has unsubscribed while h2 stays registered with a
\* message in its buffer.
C4_Witness ==
    /\ pc["h1"] = "done"
    /\ chans["h1"].closed
    /\ DOMAIN clients = {"h2"}
    /\ chans["h2"].buf # << >>


\* C5, an Unsubscribe of an ID that is not registered: nothing changes.
C5_UnknownStep ==
    \A p \in Handlers \cup Unsubscribers :
        (pc[p] = "unsubscribe" /\ pc'[p] # "unsubscribe"
         /\ arg[p] \notin DOMAIN clients) =>
            /\ clients' = clients
            /\ chans' = chans
            /\ closeCount' = closeCount

\* C5, the consequence: no channel is closed twice, and no close() of a
\* closed channel (a panic) is ever executed.
C5_ClosedOnce ==
    /\ \A c \in DOMAIN closeCount : closeCount[c] <= 1
    /\ ~panicked

\* C5: Unsubscribe of an unknown ID is a no-op, so a second Unsubscribe of
\* the same ID, or one after Close, closes nothing: every channel is closed
\* at most once.
C5_UnsubscribeUnknown == [][C5_UnknownStep]_vars /\ []C5_ClosedOnce

\* C5 witness: without any Close, both handlers and a direct caller have
\* each completed an Unsubscribe: one of the three calls found its ID
\* missing from the registry.
C5_Witness ==
    /\ pc["h1"] = "done" /\ pc["h2"] = "done"
    /\ extUnsubs = 1 /\ pc["u1"] = "idle"
    /\ pc[Closer] = "idle"
    /\ closeCount["h1"] = 1 /\ closeCount["h2"] = 1

\* C6: every registered client is active and its channel open, the sweep
\* has never removed an entry, and GetSSEStats has returned active_clients
\* equal to total_clients.
C6_RegistryActive ==
    /\ \A i \in DOMAIN clients :
          clients[i].active /\ ~chans[clients[i].channel].closed
    /\ sweepRemoved = 0
    /\ sseStats # NoStats => sseStats.active_clients = sseStats.total_clients

\* C6 witness: the sweep has run, one handler has unsubscribed, the other
\* is registered, and GetSSEStats has counted it.
C6_Witness ==
    /\ pc[Sweeper] = "wait"
    /\ \E h \in Handlers : pc[h] = "done"
    /\ Cardinality(DOMAIN clients) = 1
    /\ sseStats # NoStats /\ sseStats.total_clients = 1

WriterPCs == {"subscribe", "unsubscribe", "sweep", "close", "panic"}
ReaderPCs == {"b_send", "stats"}
InWrite == {p \in Procs : pc[p] \in WriterPCs}
InRead == {p \in Procs : pc[p] \in ReaderPCs}

\* C7, exclusion: at most one goroutine is inside a write section, none is
\* inside a read section together with it, and s.mu says who is inside.
C7_Exclusion ==
    /\ Cardinality(InWrite) <= 1
    /\ InWrite # {} => InRead = {}
    /\ InWrite = (IF rw.writer = None THEN {} ELSE {rw.writer})
    /\ InRead = rw.readers

\* C7, access: the registry changes only in a step of the goroutine that
\* holds the write lock; an entry is visited by broadcast, and the counts
\* are taken by GetSSEStats, only by a holder of the read lock.
C7_AccessStep ==
    /\ clients' # clients =>
           /\ rw.writer # None
           /\ pc[rw.writer] \in WriterPCs
           /\ pc'[rw.writer] # pc[rw.writer]
    /\ \A b \in Senders :
           (pc[b] = "b_send" /\ todo'[b] # todo[b]) => b \in rw.readers
    /\ sseStats' # sseStats => StatsCaller \in rw.readers

\* C7: s.mu guards the registry: writers exclude each other and readers,
\* and the registry is accessed under the lock only.
C7_RegistryLocked == []C7_Exclusion /\ [][C7_AccessStep]_vars

\* C7 witness: Close is inside its write section while a broadcast waits
\* for the read lock and an Unsubscribe for the write lock.
C7_Witness ==
    /\ pc[Closer] = "close"
    /\ pc["b1"] = "b_rlock"
    /\ pc["h1"] = "unsub_lock"
    /\ DOMAIN clients = {"h1", "h2"}


\* C8: a call that found at least one face decides on the first face.  When
\* it has returned: success, authorized exactly when the first face is not
\* named "Unknown", then "open_door" and "Welcome, <name>", otherwise
\* "keep_closed" and "Unknown person".  The record it made, saved (unless
\* the INSERT failed) and broadcast has the first face's name and the status
\* "authorized" exactly when the response is authorized.
C8_FirstFaceDecides ==
    \A r \in Recorders :
        /\ (pc[r] = "idle" /\ result[r].FacesDetected >= 1) =>
              LET f == result[r].Faces[1]
                  resp == response[r]
              IN /\ resp.Success
                 /\ resp.Authorized = (f.Name # "Unknown")
                 /\ resp.Name = f.Name
                 /\ IF f.Name # "Unknown"
                    THEN /\ resp.Action = "open_door"
                         /\ resp.Message = "Welcome, " \o f.Name
                    ELSE /\ resp.Action = "keep_closed"
                         /\ resp.Message = "Unknown person"
                 /\ record[r].Name = f.Name
                 /\ record[r].Status = (IF resp.Authorized THEN "authorized"
                                                            ELSE "unauthorized")
                 /\ resp.Action = "open_door" => record[r].Status = "authorized"
                 /\ [Event |-> "attendance", Data |-> record[r]] \in Range(bcastLog)
                 /\ ~saveErr[r] => record[r] \in db
        /\ pc[r] \in {"b_rlock", "b_send", "respond"} =>
              /\ record[r].Status = (IF result[r].Faces[1].Name # "Unknown"
                                     THEN "authorized" ELSE "unauthorized")
              /\ pc[r] # "respond" => message[r].Data = record[r]

\* C8 witness: a call whose result names alice first and an unknown face
\* second has returned "open_door"; its record is saved and a subscriber
\* has written it.
C8_Witness ==
    /\ pc["r1"] = "idle"
    /\ result["r1"].Faces = <<Alice, Unknown>>
    /\ response["r1"].Action = "open_door"
    /\ record["r1"] \in db
    /\ \E h \in Handlers : record["r1"] \in {m.Data : m \in Range(written[h])}

\* C9: a call whose result reports zero faces returns success, not
\* authorized, "No face detected", "keep_closed"; it inserts nothing and
\* broadcasts nothing: the table, every channel and the goroutine's place
\* are as before.
C9_NoFaceStep ==
    \A r \in Recorders :
        (pc[r] = "idle" /\ calls' = calls + 1
         /\ ~result'[r].Err /\ result'[r].FacesDetected = 0) =>
            /\ response'[r].Success
            /\ ~response'[r].Authorized
            /\ response'[r].Message = "No face detected"
            /\ response'[r].Action = "keep_closed"
            /\ db' = db
            /\ chans' = chans
            /\ bcastLog' = bcastLog
            /\ pc'[r] = "idle"

C9_NoFace == [][C9_NoFaceStep]_vars

\* C9 witness: a call has returned "No face detected" while a subscriber
\* with buffered messages was registered.
C9_Witness ==
    /\ response["r1"].Message = "No face detected"
    /\ result["r1"].FacesDetected = 0
    /\ \E id \in DOMAIN clients : chans[id].buf # << >>

\* C10, one event per call: the log of broadcasts grows only by the one
\* message, named "attendance" and carrying the call's record, of a call
\* that found a face; when such a call returns its message is in the log
\* exactly once.
C10_BroadcastStep ==
    /\ bcastLog' # bcastLog =>
          \E r \in Recorders :
              /\ pc[r] = "b_rlock" /\ pc'[r] = "b_send"
              /\ result[r].FacesDetected >= 1
              /\ bcastLog' = Append(bcastLog,
                                    [Event |-> "attendance", Data |-> record[r]])
    /\ \A r \in Recorders :
          (pc[r] = "respond" /\ pc'[r] = "idle") =>
              Cardinality({k \in 1..Len(bcastLog) :
                              bcastLog[k].Data.ID = record[r].ID}) = 1

\* C10, delivery: an event broadcast while a subscriber was registered is
\* eventually written to that subscriber's stream, unless it was dropped at
\* a full buffer or the subscriber disconnected.
C10_Delivered ==
    \A id \in ClientIDs, e \in 1..MaxCalls :
        (e \in targets[id]) ~>
            \/ e \in EventIDs(written[HandlerOf(id)])
            \/ e \in dropped[id]
            \/ ctxDone[HandlerOf(id)]

\* C10: every call that found a face broadcasts exactly one "attendance"
\* event carrying its record, and every subscriber registered at the
\* broadcast, with room in its buffer and staying connected, eventually has
\* it written to its stream.
C10_RealTime == [][C10_BroadcastStep]_vars /\ C10_Delivered

\* C10 witness: both subscribers, still connected, have written the event
\* of a call that has returned.
C10_Witness ==
    /\ pc["r1"] = "idle"
    /\ \A h \in Handlers :
          /\ ~ctxDone[h]
          /\ 1 \in targets[NewClientID(h)]
          /\ 1 \in EventIDs(written[h])

\* ------------------------------------------------------------ C11
\* C11: every event that was broadcast refers to a persisted record: the
\* record IDs broadcast so far are all IDs of rows of the attendance table.
C11_BroadcastPersisted ==
    EventIDs(bcastLog) \subseteq {rec.ID : rec \in db}

\* ------------------------------------------------------------ shutdown
\* func main from the signal on.  server.Shutdown closes the listener, so no
\* new request starts, and waits for the requests being served to return:
\* it interrupts none of them and cancels no request context.  When its
\* 10 s deadline passes first it returns an error, and log.Fatalf exits the
\* process without running main's deferred calls.
allButPc == <<clients, chans, rw, arg, message, todo, subRet, ctxDone, written,
              wroteZero, calls, sseStats, ctlVars, panicked, svcVars, recVars,
              histVars, extVars>>

\* the stream requests whose handler has not returned
ActiveRequests == {h \in Handlers : pc[h] \notin {"idle", "done"}}

\* the process has not ended; the listener is open
Running == pc[Main] \notin {"fatal", "exited"}
Accepting == pc[Main] = "idle"

\* <-quit; server.Shutdown(ctx)
Signal ==
    /\ pc[Main] = "idle"
    /\ pc' = [pc EXCEPT ![Main] = "shutdown"]
    /\ UNCHANGED allButPc

\* server.Shutdown(ctx) returns nil: every request has returned
ShutdownReturns ==
    /\ pc[Main] = "shutdown"
    /\ ActiveRequests = {}
    /\ pc' = [pc EXCEPT ![Main] = "return"]
    /\ UNCHANGED allButPc

\* ctx expires while a stream request, which ends only when its client goes
\* away, is still served: Shutdown returns the context's error and
\* log.Fatalf("Server forced to shutdown") calls os.Exit
ShutdownTimeout ==
    /\ pc[Main] = "shutdown"
    /\ \E h \in ActiveRequests : pc[h] = "stream" /\ ~ctxDone[h]
    /\ pc' = [pc EXCEPT ![Main] = "fatal"]
    /\ UNCHANGED allButPc

\* main returns: defer attendanceService.Close() has run
MainReturn ==
    /\ pc[Main] = "return"
    /\ pc[Closer] = "done"
    /\ pc' = [pc EXCEPT ![Main] = "exited"]
    /\ UNCHANGED allButPc

\* The server with stream requests, a broadcast, the sweep, and main, whose
\* deferred Close runs when main returns.
NextShutdown ==
    \/ Accepting /\ \E h \in Handlers : SubscribeLock(h)
    \/ Running /\ \E h \in Handlers : Subscribe(h)
    \/ Running /\ \E h \in Handlers : ClientDisconnect(h)
    \/ Running /\ \E h \in Handlers : StreamWrite(h)
    \/ Running /\ \E h \in Handlers : StreamDone(h)
    \/ Running /\ \E p \in Handlers : UnsubscribeLock(p)
    \/ Running /\ \E p \in Handlers : Unsubscribe(p)
    \/ Accepting /\ \E b \in Broadcasters : BroadcastCall(b)
    \/ Running /\ \E b \in Broadcasters : BroadcastRLock(b)
    \/ Running /\ \E b \in Broadcasters, id \in ClientIDs : BroadcastSend(b, id)
    \/ Running /\ \E b \in Broadcasters : BroadcastRUnlock(b)
    \/ Running /\ SweepLock
    \/ Running /\ Sweep
    \/ Running /\ SweepStop
    \/ Signal
    \/ ShutdownReturns
    \/ ShutdownTimeout
    \/ pc[Main] = "return" /\ CloseCancel
    \/ pc[Main] = "return" /\ CloseLock
    \/ pc[Main] = "return" /\ CloseAll
    \/ pc[Main] = "return" /\ CloseDB
    \/ MainReturn

SpecShutdown == InitRegistry /\ [][NextShutdown]_vars

\* C12: graceful shutdown: once the process has ended after the signal,
\* AttendanceService.Close has been executed: the cleanup goroutine's
\* context is cancelled, every subscriber channel is closed and the
\* database is closed, whatever number of subscribers was connected.
C12_GracefulShutdown ==
    pc[Main] \in {"fatal", "exited"} =>
        /\ cancelled
        /\ ~dbOpen
        /\ \A ch \in DOMAIN chans : chans[ch].closed

\* ------------------------------------------------------------ the firmware
\* The ESP32-CAM sketch: loop() calls captureAndRecognize, which posts the
\* frame to the gateway's /api/attendance and grants or denies access.
MaxCaptures == 3        \* captures the firmware takes
RelayHoldMs == 3000     \* delay(3000) with the relay HIGH

\* json.NewEncoder(w).Encode(response) of a domain.AttendanceResponse, sent
\* with status 200: the keys are those of the struct tags, "name" and
\* "confidence" being left out when empty.
EncodeResponse(resp) ==
    [code |-> 200, parsed |-> TRUE,
     keys |-> {"success", "authorized", "message", "action"}
                 \cup (IF resp.Name # "" THEN {"name"} ELSE {})
                 \cup (IF resp.Confidence # 0 THEN {"confidence"} ELSE {}),
     success |-> resp.Success, authorized |-> resp.Authorized,
     action |-> resp.Action]

\* jsonError: {"success": false, "error": message} with an error status
EncodeError(status) ==
    [code |-> status, parsed |-> TRUE, keys |-> {"success", "error"},
     success |-> FALSE, authorized |-> FALSE, action |-> ""]

\* what the gateway's RecordAttendance handler can answer
GatewayDocs ==
    {EncodeResponse(resp) :
        resp \in {FaceResponse(Alice), FaceResponse(Unknown), NoFaceResponse,
                  FailedResponse}}
        \cup {EncodeError(400), EncodeError(500)}

\* Every reply the sketch tells apart: the gateway's, a JSON object with an
\* "attendance" object (with success true or false), a body that is not JSON
\* (http.Error's plain text), and a request that failed (code <= 0).
FwDocs ==
    GatewayDocs \cup
    {[code |-> 200, parsed |-> TRUE, keys |-> {"success", "attendance"},
      success |-> b, authorized |-> FALSE, action |-> ""] : b \in BOOLEAN}
    \cup {[NoDoc EXCEPT !.code = 405], [NoDoc EXCEPT !.code = -1]}

\* a sketch that takes every reply for a recognized face
RecognizedAlways(doc) == TRUE

\* sendImageToAPI's verdict on a reply: httpResponseCode > 0, the body
\* parses, doc["success"] | false is true and doc["attendance"] is not null
Recognized(doc) ==
    /\ doc.code > 0
    /\ doc.parsed
    /\ "success" \in doc.keys /\ doc.success
    /\ "attendance" \in doc.keys

fwRest == <<clients, chans, rw, arg, message, todo, subRet, ctxDone, written,
            wroteZero, calls, sseStats, ctlVars, panicked, svcVars, recVars,
            histVars, recent, dbStats, http, addFaceLog>>

\* WiFi goes away or, in loop(), connectWiFi() brings it back
WiFiChange ==
    /\ pc[Firmware] = "idle"
    /\ fw' = [fw EXCEPT !.wifi = ~@]
    /\ UNCHANGED <<pc, fwRest>>

\* loop() decides to capture; captureAndRecognize flashes the LED and calls
\* esp_camera_fb_get(): without a frame it returns at once.
Capture(frame) ==
    /\ pc[Firmware] = "idle"
    /\ fw.captures < MaxCaptures
    /\ fw' = [fw EXCEPT !.captures = @ + 1, !.doc = NoDoc,
                        !.recognized = FALSE, !.heldMs = 0]
    /\ pc' = [pc EXCEPT ![Firmware] = IF frame THEN "send" ELSE "idle"]
    /\ UNCHANGED fwRest

\* sendImageToAPI: false at once when WiFi is down, otherwise the POST and
\* the verdict on its reply
SendImageToAPI(doc) ==
    /\ pc[Firmware] = "send"
    /\ IF fw.wifi
       THEN fw' = [fw EXCEPT !.doc = doc, !.recognized = Recognized(doc)]
       ELSE fw' = [fw EXCEPT !.recognized = FALSE]
    /\ pc' = [pc EXCEPT ![Firmware] = "handle"]
    /\ UNCHANGED fwRest

\* if (recognized) grantAccess(): three blinks, then digitalWrite(RELAY_PIN,
\* HIGH)
GrantAccess ==
    /\ pc[Firmware] = "handle"
    /\ fw.recognized
    /\ fw' = [fw EXCEPT !.relay = "HIGH"]
    /\ pc' = [pc EXCEPT ![Firmware] = "hold"]
    /\ UNCHANGED fwRest

\* delay(3000); digitalWrite(RELAY_PIN, LOW); back in loop()
RelayRelease ==
    /\ pc[Firmware] = "hold"
    /\ fw' = [fw EXCEPT !.relay = "LOW", !.heldMs = RelayHoldMs,
                        !.pulses = @ + 1]
    /\ pc' = [pc EXCEPT ![Firmware] = "idle"]
    /\ UNCHANGED fwRest

\* else denyAccess(): one long blink of the LED; back in loop()
DenyAccess ==
    /\ pc[Firmware] = "handle"
    /\ ~fw.recognized
    /\ pc' = [pc EXCEPT ![Firmware] = "idle"]
    /\ UNCHANGED <<fw, fwRest>>

NextFirmware ==
    \/ WiFiChange
    \/ \E frame \in BOOLEAN : Capture(frame)
    \/ \E doc \in FwDocs : SendImageToAPI(doc)
    \/ GrantAccess
    \/ RelayRelease
    \/ DenyAccess

SpecFirmware == InitFresh /\ [][NextFirmware]_vars

\* C13: when the gateway answers a capture with an authorized response
\* (success, authorized, "open_door"), the firmware takes the face for
\* recognized and activates the relay: once that capture is over the relay
\* has been HIGH for 3 seconds and is LOW again.
C13_AuthorizedOpens ==
    (/\ pc[Firmware] = "idle"
     /\ fw.doc \in GatewayDocs
     /\ fw.doc.success /\ fw.doc.authorized /\ fw.doc.action = "open_door")
        => /\ fw.recognized
           /\ fw.heldMs = RelayHoldMs
           /\ fw.relay = "LOW"

\* C14, the relay pin: it is HIGH only between grantAccess's two writes,
\* which run only after a reply judged recognized, and LOW whenever the
\* sketch is in loop() between captures.
C14_RelayState ==
    /\ fw.relay = "HIGH" =>
          pc[Firmware] = "hold" /\ fw.recognized /\ Recognized(fw.doc)
    /\ pc[Firmware] = "idle" => fw.relay = "LOW"
    /\ fw.pulses <= fw.captures

\* C14, a capture that is not recognized: a failed camera, WiFi down, a
\* failed request, a body that is not JSON, success false, or a reply of the
\* gateway for an unknown person or for no face gives the verdict "not
\* recognized", and no step of such a capture raises the relay pin or counts
\* a pulse.
C14_NotRecognizedStep ==
    /\ (pc[Firmware] = "send" /\ pc'[Firmware] = "handle") =>
          ((\/ ~fw.wifi
            \/ fw'.doc.code <= 0
            \/ ~fw'.doc.parsed
            \/ ~fw'.doc.success
            \/ fw'.doc \in {EncodeResponse(FaceResponse(Unknown)),
                            EncodeResponse(NoFaceResponse)})
              => ~fw'.recognized)
    /\ (pc[Firmware] = "idle" /\ pc'[Firmware] = "idle") =>
          fw'.relay = "LOW" /\ fw'.pulses = fw.pulses
    /\ ~fw.recognized => fw'.relay = "LOW" /\ fw'.pulses = fw.pulses

\* C14: the relay pin is driven HIGH only inside grantAccess, which runs
\* only after a capture judged recognized; after any capture that is not
\* recognized the relay stays LOW, and it is LOW between captures.
C14_RelayOnlyOnGrant == []C14_RelayState /\ [][C14_NotRecognizedStep]_vars

\* C14 witness: the relay is HIGH, inside grantAccess, after an earlier
\* capture was denied.
C14_Witness ==
    /\ fw.relay = "HIGH"
    /\ pc[Firmware] = "hold"
    /\ fw.captures = 2
    /\ fw.pulses = 0

\* ------------------------------------------------------------ recent
\* GET /api/attendance/recent.  A query string is a sequence of characters.
DefaultLimit == 50      \* limit := 50
MaxLimit == 1000        \* if limit > 1000 { limit = 1000 }
MaxRows == MaxLimit + 1

Digits == {"0", "1", "2", "3", "4", "5", "6", "7", "8", "9"}
DigitVal(c) ==
    CASE c = "0" -> 0 [] c = "1" -> 1 [] c = "2" -> 2 [] c = "3" -> 3
      [] c = "4" -> 4 [] c = "5" -> 5 [] c = "6" -> 6 [] c = "7" -> 7
      [] c = "8" -> 8 [] c = "9" -> 9

\* the value of the leading digits of str, after the digits worth acc
RECURSIVE ScanDigits(_, _)
ScanDigits(str, acc) ==
    IF str = << >> \/ Head(str) \notin Digits
    THEN acc
    ELSE ScanDigits(Tail(str), acc * 10 + DigitVal(Head(str)))

\* fmt.Sscanf(str, "%d", &limit): an optional sign, then at least one digit;
\* what follows the digits is left unread.  ok: parsed == 1 && err == nil.
Sscanf(str) ==
    LET signed == str # << >> /\ Head(str) \in {"+", "-"}
        body == IF signed THEN Tail(str) ELSE str
    IN IF body = << >> \/ Head(body) \notin Digits
       THEN [ok |-> FALSE, value |-> 0]
       ELSE [ok |-> TRUE,
             value |-> IF Head(str) = "-" THEN 0 - ScanDigits(body, 0)
                       ELSE ScanDigits(body, 0)]

\* the handler's limit: 50, overwritten by a limit parameter that is present
\* and scans, and then cut to 1000 when larger
ParseLimit(str) ==
    IF str = << >> \/ ~Sscanf(str).ok
    THEN DefaultLimit
    ELSE IF Sscanf(str).value > MaxLimit THEN MaxLimit ELSE Sscanf(str).value

\* The records carry no Timestamp field: their IDs number them in the order
\* of their time.Now(), and stand for the timestamp too.
Timestamp(rec) == rec.ID

\* LIMIT ?: SQLite takes a negative limit for "no upper bound"
Limit(rows, limit) ==
    IF limit < 0 \/ limit >= Len(rows) THEN rows ELSE SubSeq(rows, 1, limit)

\* SELECT ... FROM attendance ORDER BY timestamp DESC LIMIT ?: the
\* timestamps of the table from the latest down, cut at the limit, each
\* with its row
QueryRecent(table, limit) ==
    LET ts == {Timestamp(rec) : rec \in table}
        hi == CHOOSE t \in ts : \A u \in ts : u <= t
        lo == CHOOSE t \in ts : \A u \in ts : t <= u
        IsTs(t) == t \in ts
        sorted == SelectSeq([i \in 1..(hi - lo + 1) |-> hi - i + 1], IsTs)
    IN IF table = {} THEN << >>
       ELSE [i \in 1..Len(Limit(sorted, limit)) |->
                CHOOSE rec \in table : Timestamp(rec) = sorted[i]]

\* the values of the limit parameter that are tried; << >> is "absent"
LimitStrs ==
    {<< >>, <<"a">>, <<"-">>, <<"0">>, <<"1">>, <<"2">>, <<"+", "3">>,
     <<"2", "a">>, <<"5", "0">>, <<"5", "1">>, <<"9", "9", "9">>,
     <<"1", "0", "0", "0">>, <<"1", "0", "0", "1">>, <<"5", "0", "0", "0">>,
     <<"-", "1">>, <<"-", "5">>}

\* the numbers of rows the table holds when the server starts
TableSizes == {0, 1, 2, 3, DefaultLimit, DefaultLimit + 1, MaxLimit, MaxRows}

\* NewAttendanceService on a database file that holds n rows
InitTable ==
    \E n \in TableSizes :
        /\ InitOpened(0, 0)
        /\ db = {MkRecord(k, Alice, "authorized") : k \in 1..n}

\* The handler GetRecentAttendance and the service's query: 405 for another
\* method; otherwise the limit, the query, and 200 with the records.  A run
\* makes one request.
GetRecentAttendance(method, str) ==
    /\ http.recent = 0
    /\ IF method # "GET"
       THEN /\ http' = [http EXCEPT !.recent = 405]
            /\ UNCHANGED recent
       ELSE /\ http' = [http EXCEPT !.recent = 200]
            /\ recent' = [query |-> str, limit |-> ParseLimit(str),
                          records |-> QueryRecent(db, ParseLimit(str)),
                          served |-> TRUE]
    /\ UNCHANGED <<clients, chans, rw, pc, arg, message, todo, subRet, ctxDone,
                   written, wroteZero, calls, sseStats, ctlVars, panicked,
                   svcVars, recVars, histVars, fw, dbStats, addFaceLog>>

NextRecent ==
    \E method \in {"GET", "POST"}, str \in LimitStrs :
        GetRecentAttendance(method, str)

SpecRecent == InitTable /\ [][NextRecent]_vars

\* C15, the cap: whatever the limit parameter, a response of GET
\* /api/attendance/recent holds at most 1000 records.
C15_AtMostThousand == recent.served => Len(recent.records) <= MaxLimit

\* ------------------------------------------------------------ statistics
\* GetAttendanceStats: four queries, one after the other, each a statement
\* of its own on the connection pool; RecordAttendance's INSERT may run
\* between any two.  A run makes one call.
statsRest == <<clients, chans, rw, arg, message, todo, subRet, ctxDone,
               written, wroteZero, calls, sseStats, ctlVars, panicked,
               svcVars, recVars, histVars, fw, recent, http, addFaceLog>>

\* SELECT COUNT(*) FROM attendance
StatsTotal ==
    /\ pc[DBStatsCaller] = "idle"
    /\ ~dbStats.returned
    /\ dbStats' = [dbStats EXCEPT !.total = Cardinality(db)]
    /\ pc' = [pc EXCEPT ![DBStatsCaller] = "authorized"]
    /\ UNCHANGED statsRest

\* SELECT COUNT(*) FROM attendance WHERE status = 'authorized'
StatsAuthorized ==
    /\ pc[DBStatsCaller] = "authorized"
    /\ dbStats' = [dbStats EXCEPT !.authorized =
                      Cardinality({rec \in db : rec.Status = "authorized"})]
    /\ pc' = [pc EXCEPT ![DBStatsCaller] = "unauthorized"]
    /\ UNCHANGED statsRest

\* SELECT COUNT(*) FROM attendance WHERE status = 'unauthorized'
StatsUnauthorized ==
    /\ pc[DBStatsCaller] = "unauthorized"
    /\ dbStats' = [dbStats EXCEPT !.unauthorized =
                      Cardinality({rec \in db : rec.Status = "unauthorized"})]
    /\ pc' = [pc EXCEPT ![DBStatsCaller] = "unique"]
    /\ UNCHANGED statsRest

\* SELECT COUNT(DISTINCT name) FROM attendance WHERE status = 'authorized';
\* return stats, nil
StatsUnique ==
    /\ pc[DBStatsCaller] = "unique"
    /\ dbStats' = [dbStats EXCEPT
                      !.unique_people =
                          Cardinality({rec.Name :
                              rec \in {r \in db : r.Status = "authorized"}}),
                      !.returned = TRUE]
    /\ pc' = [pc EXCEPT ![DBStatsCaller] = "idle"]
    /\ UNCHANGED statsRest

NextDBStats ==
    \/ Next
    \/ StatsTotal
    \/ StatsAuthorized
    \/ StatsUnauthorized
    \/ StatsUnique

SpecDBStats == InitFresh /\ [][NextDBStats]_vars

\* C16: every result GetAttendanceStats returns has total = authorized +
\* unauthorized and unique_people <= authorized, also when RecordAttendance
\* inserts while the queries run.
C16_StatsConsistent ==
    dbStats.returned =>
        /\ dbStats.total = dbStats.authorized + dbStats.unauthorized
        /\ dbStats.unique_people <= dbStats.authorized

\* ------------------------------------------------------------ POST /api/attendance
MaxUploadSize == 5242880    \* upload.maxuploadsize, 5MB

\* a size test that lets every file through
TooLargeNever(size) == FALSE

\* fileHeader.Size > h.config.Upload.MaxUploadSize
TooLarge(size) == size > MaxUploadSize

\* A request: its method, whether the multipart form parses, whether it has
\* an "image" file, the size of that file and whether it can be read.
AttendanceRequests ==
    [method : {"POST", "GET"}, form : BOOLEAN, image : BOOLEAN,
     size : {MaxUploadSize, MaxUploadSize + 1}, readable : BOOLEAN]

\* the status of the handler's early returns, 0 when it goes on to the service
AttendanceStatus(req) ==
    IF req.method # "POST" THEN 405
    ELSE IF ~req.form THEN 400
    ELSE IF ~req.image THEN 400
    ELSE IF TooLarge(req.size) THEN 400
    ELSE IF ~req.readable THEN 500
    ELSE 0

\* The handler RecordAttendance: the method, the form, the "image" file, its
\* size, io.ReadAll, then the service's RecordAttendance, whose response is
\* the reply.
HandlerRecordAttendance(r, req) ==
    /\ pc[r] = "idle"
    /\ http' = [http EXCEPT !.attendance = AttendanceStatus(req), !.areq = req]
    /\ IF AttendanceStatus(req) # 0
       THEN UNCHANGED <<clients, chans, rw, pc, arg, message, todo, subRet,
                        ctxDone, written, wroteZero, calls, sseStats, ctlVars,
                        panicked, svcVars, recVars, histVars, fw, recent,
                        dbStats, addFaceLog>>
       ELSE \E res \in RecognitionResults \cup {RecognizeFailed},
               ok \in BOOLEAN : RecordAttendance(r, res, ok)

\* attendance requests through the handler while one subscriber streams
NextAttendance ==
    \/ \E r \in Recorders, req \in AttendanceRequests :
          HandlerRecordAttendance(r, req)
    \/ \E r \in Recorders : BroadcastRLock(r)
    \/ \E r \in Recorders, id \in ClientIDs : BroadcastSend(r, id)
    \/ \E r \in Recorders : BroadcastRUnlock(r)
    \/ \E r \in Recorders : RecordRespond(r)
    \/ \E h \in Handlers : StreamWrite(h)

SpecAttendance == InitBacklog(Buffered, 0, MaxCalls) /\ [][NextAttendance]_vars

\* C17: a request to POST /api/attendance with another method is answered
\* 405, and one whose form does not parse, that has no "image" file or whose
\* image is larger than the maximum upload size is answered 400; handling it
\* calls the face-recognition service not at all, inserts no record and
\* broadcasts no event.
C17_RejectStep ==
    LET req == http'.areq
    IN (/\ http' # http \/ calls' # calls \/ db' # db
        /\ \/ req.method # "POST"
           \/ ~req.form
           \/ ~req.image
           \/ req.size > MaxUploadSize)
          => /\ http'.attendance = IF req.method # "POST" THEN 405 ELSE 400
             /\ calls' = calls
             /\ db' = db
             /\ bcastLog' = bcastLog
             /\ chans' = chans
             /\ pc' = pc
             /\ message' = message

C17_RejectBeforeEffects == [][C17_RejectStep]_vars

\* C17 witness: after a request that was served, a request with an image one
\* byte too large was answered 400.
C17_Witness ==
    /\ http.attendance = 400
    /\ http.areq.method = "POST" /\ http.areq.form /\ http.areq.image
    /\ http.areq.size = MaxUploadSize + 1
    /\ calls = 1
    /\ Len(bcastLog) = Buffered + 1

\* ------------------------------------------------------------ POST /api/faces/upload
MaxImages == 2      \* "images" files in one request

\* A file of the form: its content, its size, and whether it can be opened
\* and read.
Images ==
    [data : {"a", "b"}, size : {MaxUploadSize, MaxUploadSize + 1},
     readable : BOOLEAN]

\* A request: its method, whether the multipart form parses, the "name"
\* value and the "images" files in the order of the request.
UploadRequests ==
    [method : {"POST", "GET"}, form : BOOLEAN, name : {"", "bob"},
     images : UNION {[1..n -> Images] : n \in 0..MaxImages}]

\* a loop that stops after the first file
CollectFirst(files) == <<files[1].data>>

\* images = append(images, data) for each file, in the order of the form
Collect(files) == [i \in 1..Len(files) |-> files[i].data]

\* for _, fileHeader := range files: the first file that is too large ends
\* the handler with 400, the first that cannot be opened or read with 500;
\* 0 when the loop runs to its end
RECURSIVE RangeFiles(_)
RangeFiles(files) ==
    IF files = << >> THEN 0
    ELSE IF TooLarge(Head(files).size) THEN 400
    ELSE IF ~Head(files).readable THEN 500
    ELSE RangeFiles(Tail(files))

\* the status of the handler's returns before AddFace, 0 when it calls it
UploadStatus(req) ==
    IF req.method # "POST" THEN 405
    ELSE IF ~req.form THEN 400
    ELSE IF req.name = "" THEN 400
    ELSE IF Len(req.images) = 0 THEN 400
    ELSE RangeFiles(req.images)

\* The handler UploadFaces: the checks, then one call of AddFace with the
\* name and the collected images, which succeeds (201 from the face service)
\* or fails; 201 with images_added = len(images), or 500.  A run makes one
\* request.
UploadFaces(req, added) ==
    /\ http.upload = 0
    /\ IF UploadStatus(req) # 0
       THEN /\ http' = [http EXCEPT !.upload = UploadStatus(req),
                                    !.ureq = req, !.images_added = -1]
            /\ UNCHANGED addFaceLog
       ELSE /\ addFaceLog' = Append(addFaceLog,
                                    [name |-> req.name,
                                     images |-> Collect(req.images)])
            /\ http' = [http EXCEPT
                           !.upload = IF added THEN 201 ELSE 500,
                           !.ureq = req,
                           !.images_added =
                               IF added THEN Len(Collect(req.images)) ELSE -1]
    /\ UNCHANGED <<clients, chans, rw, pc, arg, message, todo, subRet, ctxDone,
                   written, wroteZero, calls, sseStats, ctlVars, panicked,
                   svcVars, recVars, histVars, fw, recent, dbStats>>

NextUpload == \E req \in UploadRequests, added \in BOOLEAN : UploadFaces(req, added)

SpecUpload == InitFresh /\ [][NextUpload]_vars

\* C18 as stated, for an upload (a POST whose form parses): with an empty
\* name, without "images" file or with an image larger than the maximum
\* upload size it is answered 400 and AddFace is not called; every other
\* upload calls AddFace exactly once with all images in the order of the
\* request, and the reply reports images_added = the number of images sent.
C18_AsStatedStep ==
    LET req == http'.ureq
        tooLarge == \E i \in 1..Len(req.images) :
                        req.images[i].size > MaxUploadSize
    IN ((http' # http \/ addFaceLog' # addFaceLog)
            /\ req.method = "POST" /\ req.form) =>
          IF req.name = "" \/ req.images = << >> \/ tooLarge
          THEN http'.upload = 400 /\ addFaceLog' = addFaceLog
          ELSE /\ addFaceLog' =
                     Append(addFaceLog,
                            [name |-> req.name,
                             images |-> [i \in 1..Len(req.images) |->
                                            req.images[i].data]])
               /\ http'.images_added = Len(req.images)

C18_UploadStep ==
    LET req == http'.ureq
        parsed == req.method = "POST" /\ req.form
        tooLarge == \E i \in 1..Len(req.images) :
                        req.images[i].size > MaxUploadSize
        unreadable == \E i \in 1..Len(req.images) : ~req.images[i].readable
        defect == req.name = "" \/ req.images = << >> \/ tooLarge
    IN (http' # http \/ addFaceLog' # addFaceLog) =>
          /\ (parsed /\ (req.name = "" \/ req.images = << >>)) =>
                http'.upload = 400
          /\ (parsed /\ defect /\ ~unreadable) =>
                http'.upload = 400
          /\ (~parsed \/ defect \/ unreadable) =>
                /\ addFaceLog' = addFaceLog
                /\ http'.upload \in {400, 405, 500}
                /\ http'.images_added = -1
          /\ (parsed /\ ~defect /\ ~unreadable) =>
                /\ addFaceLog' =
                      Append(addFaceLog,
                             [name |-> req.name,
                              images |-> [i \in 1..Len(req.images) |->
                                             req.images[i].data]])
                /\ \/ http'.upload = 201 /\ http'.images_added = Len(req.images)
                   \/ http'.upload = 500 /\ http'.images_added = -1

FairStream ==
    /\ \A h \in Handlers : WF_vars(StreamDone(h))
    /\ \A h \in Handlers : SF_vars(UnsubscribeLock(h))
    /\ \A h \in Handlers : WF_vars(Unsubscribe(h))
    /\ \A h \in Handlers : WF_vars(Subscribe(h))
    /\ \A b \in Broadcasters : WF_vars(\E id \in ClientIDs : BroadcastSend(b, id))
    /\ \A b \in Broadcasters : WF_vars(BroadcastRUnlock(b))
    /\ WF_vars(Sweep)
    /\ WF_vars(CloseAll)

SpecStream == InitRegistry /\ [][NextBroker]_vars /\ FairStream

C20_SweepStep ==
    (pc[Sweeper] = "sweep" /\ pc'[Sweeper] # "sweep") =>
        /\ DOMAIN clients' = {i \in DOMAIN clients : clients[i].active}
        /\ \A i \in DOMAIN clients' : clients'[i] = clients[i]
        /\ chans' = chans
        /\ closeCount' = closeCount
        /\ bcastLog' = bcastLog
        /\ targets' = targets
        /\ written' = written

\* C20: the sweep removes exactly the registry entries that are not active;
\* it leaves the active entries, their channels and the buffers as they
\* are, closes no channel and sends no message.
C20_SweepFrame == [][C20_SweepStep]_vars

\* C20 witness: the sweep has made a pass and two subscribers are
\* registered, one with every message of the run still in its buffer.
C20_Witness ==
    /\ pc[Sweeper] = "wait"
    /\ rw.writer = None
    /\ DOMAIN clients = {"h1", "h2"}
    /\ Len(chans["h1"].buf) = MaxBroadcasts
    /\ bcastsLeft = 0

=============================================================================
